---- MODULE Spec2Model ----
(***************************************************************************)
(* Model of the Player class (src/src/utils/player.js) as it is driven by  *)
(* a two-player local game: movement on the 10x10 board, confirmation of   *)
(* the current target and the power/steal mechanic; and of the client of   *)
(* the multiplayer game, MultiplayerGame (src/src/multiplayer/main.js),    *)
(* which previews the local player's moves and takes everything else from  *)
(* the server's game_start and game_update events.                         *)
(*                                                                         *)
(* A board button is modelled by its label (innerHTML) and its classList,  *)
(* a set of CSS classes.  A CSS class `founded-by-player2` is written as   *)
(* the pair <<"founded-by-player", 2>>.                                    *)
(***************************************************************************)
EXTENDS Integers, FiniteSets, Sequences, TLC

\* ------------------------------------------------------------------ bounds
\* Moves explored per player when the players only move.
MaxMoves == 2
\* Moves explored in a game, both players together.
MaxGameMoves == 1
\* incrementPower is explored while the caller's powerCounter is below this.
MaxCounter == 3
\* Powers granted in a game, both players together.
MaxPower == 1
\* game_start events explored by the client (each binds a key listener).
MaxListeners == 2
\* The client explores a direction key while the local player's moveCount is
\* below this.
MaxClientMoves == 1

\* ------------------------------------------------------- program constants
\* The board has 100 buttons, numbered 1..100 row-major, 10 per row.
BoardSize == 100
RowLength == 10
\* The powerCounter value at which a power is granted.
PowerThreshold == 3
\* The client ends the game above this target / above this score.
TargetLimit == 100
ScoreLimit == 50

Players == {1, 2}
Directions == {-10, -1, 1, 10}
Positions == 1..BoardSize

VARIABLES
  positionIndex,  \* player -> position on the board
  moveCount,      \* player -> number of moves made
  score,          \* player -> targets found
  power,          \* player -> powers granted
  powerCounter,   \* player -> current streak counter
  saves,          \* player -> cells recovered from the opponent's steal
  stolen,         \* player -> own stolen cells recovered
  innerHTML,      \* button position -> label shown on the button
  classList,      \* button position -> set of CSS classes of the button
  currentTarget,  \* the number the players are looking for
  last,           \* the last call made and what it returned
  prev,           \* the move before the last call, when the last two calls
                  \* were moves of the same player; NoCall otherwise
  \* --- MultiplayerGame (the client)
  gameRunning,    \* this.gameRunning
  socketConnected,\* this.socketConnected
  players,        \* ids of this.players, the client's roster
  playerId,       \* this.playerId, 0 for null
  keyListeners,   \* number of keydown listeners bound to the document
  pending,        \* the key event being dispatched and the listeners still
                  \* to run for it
  received,       \* payload of the server event handled last
  emitted,        \* messages emitted since the last event began
  animated,       \* cells given the found animation by the last handler
  foundApplied,   \* labels whose found effect was applied since game start
  gameOverShown,  \* showGameOver calls made by the last handler
  reloading,      \* window.location.reload() was called: the page is going
  \* --- MultiplayerGame's connection to the server
  ioDefined,      \* whether the socket.io client script was loaded
  uiTimer,        \* the 800 ms timer of init() that creates this.ui
  noticeTimer,    \* the 1000 ms timer of the "not available" toast
  sockets,        \* attempt -> state of the socket that attempt created
  socket,         \* the attempt whose socket is this.socket, 0 for null
  connectionTimeout, \* the attempt whose timer is this.connectionTimeout
  timers,         \* attempt -> state of that attempt's 15 s timer
  retryTimer,     \* the 2 s timer that calls initializeSocket again
  reconnectionAttempted, \* this.reconnectionAttempted
  status,         \* class and text last given to updateConnectionStatus
  toast,          \* the message of the last toast shown
  attempts,       \* number of calls of initializeSocket so far
  roomCode,       \* this.roomCode, "" for null
  isHost,         \* this.isHost
  isReady,        \* this.isReady
  \* --- the relay server's session registry
  rooms,          \* codes of the rooms in the registry
  roomPlayers,    \* ids of the room's players, in join order
  readySet,       \* ids of the players whose isReady is true
  host,           \* id of the room's host, 0 without a room
  phase,          \* phase of the room, "" without a room
  nextId,         \* the id the next player gets
  reply,          \* what the server answered to the last request
  leaves,         \* players that have left so far
  readyCalls      \* setReady requests handled so far

playerVars == <<positionIndex, moveCount, score, power, powerCounter, saves,
                stolen, innerHTML, classList, currentTarget, last, prev>>

clientVars == <<gameRunning, socketConnected, players, playerId, keyListeners,
                pending, received, emitted, animated, foundApplied,
                gameOverShown, reloading>>

connVars == <<ioDefined, uiTimer, noticeTimer, sockets, socket,
              connectionTimeout, timers, retryTimer, reconnectionAttempted,
              status, toast, attempts, roomCode, isHost, isReady>>

serverVars == <<rooms, roomPlayers, readySet, host, phase, nextId, reply, leaves,
                readyCalls>>

vars == <<playerVars, clientVars, connVars, serverVars>>

\* ------------------------------------------------------------- CSS classes
getFoundClass(index) == <<"founded-by-player", index>>

getPositionClass(index) == <<"position-of-player", index>>

getStolenClass(index) == <<"stolen", index>>

otherPlayerIndex(index) == IF index = 1 THEN 2 ELSE 1

\* ---------------------------------------------------------------- movement
\* "Adjust for board boundaries": the if / else-if chain, in source order.
AdjustBoundaries(p, direction) ==
  IF p = 110 \/ p = 101 THEN 1
  ELSE IF p = 101 /\ direction = 10 THEN 2
  ELSE IF 101 < p /\ p < 110 THEN p - 99
  ELSE IF p < 1 THEN p + 99
  ELSE IF p = -9 THEN BoardSize
  ELSE p

\* "Keep position in bounds (safety check)".
KeepInBounds(p) ==
  LET q == IF p < 1 THEN 1 ELSE p
  IN  IF q > BoardSize THEN BoardSize ELSE q

\* Mutant: the position is advanced without any boundary handling.
NewPositionUnbounded(position, direction) == position + direction

\* Mutant: the lower boundary test is off by one (p <= 1 instead of p < 1).
NewPositionOffByOne(position, direction) ==
  LET p == position + direction
  IN  KeepInBounds(IF p <= 1 THEN p + 99 ELSE AdjustBoundaries(p, direction))

\* The position Player.move leaves in positionIndex.
NewPosition(position, direction) ==
  KeepInBounds(AdjustBoundaries(position + direction, direction))

\* Column (0-based) of a position on the row-major board.
ColOf(p) == (p - 1) % RowLength

\* ------------------------------------------------------------------- boards
\* Labels are a permutation of 1..100.  Two shuffles are explored.
SwapPairs == [i \in Positions |-> IF i % 2 = 1 THEN i + 1 ELSE i - 1]

SwapInner == [i \in Positions |-> IF i = 1 \/ i = BoardSize THEN i
                                  ELSE IF i % 2 = 0 THEN i + 1 ELSE i - 1]

Boards == {SwapPairs, SwapInner}

\* ------------------------------------------------------------ construction
NoCall == [op |-> "new", player |-> 0, direction |-> 0, from |-> 0,
           result |-> ""]

NoKey == [key |-> "", remaining |-> 0]

NoPayload == [event |-> "", currentTarget |-> 0, players |-> <<>>,
              lastMove |-> [type |-> "", targetFound |-> FALSE,
                            playerId |-> 0]]

\* The MultiplayerGame as its constructor leaves it.
ClientConstructed ==
  /\ gameRunning = FALSE
  /\ socketConnected = FALSE
  /\ players = {}
  /\ playerId = 0
  /\ keyListeners = 0
  /\ pending = NoKey
  /\ received = NoPayload
  /\ emitted = <<>>
  /\ animated = {}
  /\ foundApplied = {}
  /\ gameOverShown = 0
  /\ reloading = FALSE

\* Sockets the client has room for in the model.
MaxAttempts == 3
\* Player ids the server hands out, players that leave and setReady
\* requests in one run.
MaxIds == 11
MaxLeaves == 1
MaxReadyCalls == 2
Attempts == 1..MaxAttempts

NoStatus == [class |-> "", text |-> ""]

\* The connection as the constructor leaves it: no socket, no timer.
ConnConstructed(io) ==
  /\ ioDefined = io
  /\ uiTimer = "unset"
  /\ noticeTimer = "unset"
  /\ sockets = [a \in Attempts |-> "none"]
  /\ socket = 0
  /\ connectionTimeout = 0
  /\ timers = [a \in Attempts |-> "unset"]
  /\ retryTimer = "unset"
  /\ reconnectionAttempted = FALSE
  /\ status = NoStatus
  /\ toast = ""
  /\ attempts = 0
  /\ roomCode = ""
  /\ isHost = FALSE
  /\ isReady = FALSE

NoReply == [event |-> "", error |-> "", code |-> ""]

\* The registry at server start: empty.
ServerStarted ==
  /\ rooms = {}
  /\ roomPlayers = <<>>
  /\ readySet = {}
  /\ host = 0
  /\ phase = ""
  /\ nextId = 1
  /\ reply = NoReply
  /\ leaves = 0
  /\ readyCalls = 0

\* State after the players are constructed at their start positions and the
\* position markers are put on the board.
Constructed(start, board) ==
  /\ positionIndex = start
  /\ moveCount = [p \in Players |-> 0]
  /\ score = [p \in Players |-> 0]
  /\ power = [p \in Players |-> 0]
  /\ powerCounter = [p \in Players |-> 0]
  /\ saves = [p \in Players |-> 0]
  /\ stolen = [p \in Players |-> 0]
  /\ innerHTML = board
  /\ classList = [i \in Positions |->
                    {getPositionClass(p) : p \in {q \in Players : start[q] = i}}]
  /\ currentTarget = 1
  /\ last = NoCall
  /\ prev = NoCall

\* ------------------------------------------------------------- Player.move
\* hasButtons = FALSE models a call with a missing or empty button list.
Move(p, direction, hasButtons) ==
  /\ IF ~hasButtons
     THEN /\ last' = [op |-> "move", player |-> p, direction |-> direction,
                      from |-> positionIndex[p], result |-> "no-buttons"]
          /\ UNCHANGED <<positionIndex, moveCount, classList>>
     ELSE LET foundPreviousPosition ==
                \E i \in Positions : getPositionClass(p) \in classList[i]
              cleared == [i \in Positions |->
                            classList[i] \ {getPositionClass(p)}]
              np == NewPosition(positionIndex[p], direction)
          IN  /\ moveCount' = [moveCount EXCEPT
                                 ![p] = IF foundPreviousPosition
                                        THEN @ + 1 ELSE @]
              /\ positionIndex' = [positionIndex EXCEPT ![p] = np]
              /\ classList' = IF np \in Positions
                              THEN [cleared EXCEPT
                                      ![np] = @ \cup {getPositionClass(p)}]
                              ELSE cleared
              /\ last' = [op |-> "move", player |-> p,
                          direction |-> direction,
                          from |-> positionIndex[p], result |-> "moved"]
  /\ prev' = IF last.op = "move" /\ last.player = p THEN last ELSE NoCall
  /\ UNCHANGED <<score, power, powerCounter, saves, stolen, innerHTML,
                 currentTarget>>

\* ------------------------------------------------ movement specification
\* The first player is put on any cell of the board and moves about; the
\* second player stays on the default start cell.
DefaultStart == 1

InitMove ==
  /\ \E s \in Positions :
       Constructed([q \in Players |-> IF q = 1 THEN s ELSE DefaultStart],
                   SwapPairs)
  /\ ClientConstructed
  /\ ConnConstructed(TRUE)
  /\ ServerStarted

NextMove ==
  \E direction \in Directions, hasButtons \in BOOLEAN :
    /\ moveCount[1] < MaxMoves
    /\ Move(1, direction, hasButtons)
    /\ UNCHANGED <<clientVars, connVars, serverVars>>

SpecMove == InitMove /\ [][NextMove]_vars

\* ------------------------------------------------------ Player.checkTarget
\* What checkTarget reads and may change: the button's classList and the
\* calling player's counters, with the value it returns.
Outcome(classes, stolenCount, savesCount, counter, result) ==
  [classes |-> classes, stolen |-> stolenCount, saves |-> savesCount,
   powerCounter |-> counter, result |-> result]

\* "Check if the current position contains the target".
TargetFound(index, st) ==
  [st EXCEPT !.classes = @ \cup {getFoundClass(index)}, !.result = "true"]

\* Mutant: the recovery of an own steal leaves powerCounter as it is.
RecoverOwnStealKeepsCounter(index, st) ==
  [st EXCEPT !.classes = (@ \ {getStolenClass(index)})
                           \cup {getFoundClass(index)},
             !.stolen = @ + 1,
             !.result = "stolen-recovered"]

\* "Check if current position contains a stolen item".
RecoverOwnSteal(index, st) ==
  [st EXCEPT !.classes = (@ \ {getStolenClass(index)})
                           \cup {getFoundClass(index)},
             !.stolen = @ + 1,
             !.powerCounter = 0,
             !.result = "stolen-recovered"]

\* Mutant: a save is counted in stolen, the two counters collapsed.
SaveFromOpponentCountsStolen(index, st) ==
  [st EXCEPT !.classes = (@ \ {getStolenClass(otherPlayerIndex(index))})
                           \cup {getFoundClass(index)},
             !.stolen = @ + 1,
             !.powerCounter = 0,
             !.result = "saved"]

\* "Check if current position contains an item stolen by opponent".
SaveFromOpponent(index, st) ==
  [st EXCEPT !.classes = (@ \ {getStolenClass(otherPlayerIndex(index))})
                           \cup {getFoundClass(index)},
             !.saves = @ + 1,
             !.powerCounter = 0,
             !.result = "saved"]

\* Mutant: a wrong cell still resets the streak counter.
WrongCellResetsCounter(index, st) ==
  [st EXCEPT !.powerCounter = 0, !.result = "false"]

\* The final `return false`.
WrongCell(index, st) == [st EXCEPT !.result = "false"]

\* Mutant: the stolen markers are looked at before the label, and a recovery
\* is reported as a find.
checkTargetMarkersFirst(index, position, html, target, st) ==
  IF position \notin Positions THEN WrongCell(index, st)
  ELSE IF getStolenClass(index) \in st.classes
       THEN [RecoverOwnSteal(index, st) EXCEPT !.result = "true"]
  ELSE IF getStolenClass(otherPlayerIndex(index)) \in st.classes
       THEN [SaveFromOpponent(index, st) EXCEPT !.result = "true"]
  ELSE IF html = target THEN TargetFound(index, st)
  ELSE WrongCell(index, st)

\* Mutant: a stolen cell is marked found without removing the stolen marker.
checkTargetKeepsMarker(index, position, html, target, st) ==
  IF position \notin Positions THEN WrongCell(index, st)
  ELSE IF html = target THEN TargetFound(index, st)
  ELSE IF getStolenClass(index) \in st.classes
       THEN [RecoverOwnSteal(index, st) EXCEPT !.classes =
               st.classes \cup {getFoundClass(index)}]
  ELSE IF getStolenClass(otherPlayerIndex(index)) \in st.classes
       THEN [SaveFromOpponent(index, st) EXCEPT !.classes =
               st.classes \cup {getFoundClass(index)}]
  ELSE WrongCell(index, st)

\* checkTarget(position, buttons, target) called on player `index`; html is
\* the label of buttons[position - 1] (any value when there is no button).
checkTarget(index, position, html, target, st) ==
  IF position \notin Positions THEN WrongCell(index, st)
  ELSE IF html = target THEN TargetFound(index, st)
  ELSE IF getStolenClass(index) \in st.classes THEN RecoverOwnSteal(index, st)
  ELSE IF getStolenClass(otherPlayerIndex(index)) \in st.classes
       THEN SaveFromOpponent(index, st)
  ELSE WrongCell(index, st)

\* The game advances the target and the finder's score on a find only.
TargetAfter(result, target) == IF result = "true" THEN target + 1 ELSE target

ScoreAfter(result, points) == IF result = "true" THEN points + 1 ELSE points

\* A player presses confirm: checkTarget at the player's position against
\* the current target, then the game's bookkeeping.
Confirm(p) ==
  LET position == positionIndex[p]
      out == checkTarget(p, position, innerHTML[position], currentTarget,
                         Outcome(classList[position], stolen[p], saves[p],
                                 powerCounter[p], "false"))
  IN  /\ classList' = [classList EXCEPT ![position] = out.classes]
      /\ stolen' = [stolen EXCEPT ![p] = out.stolen]
      /\ saves' = [saves EXCEPT ![p] = out.saves]
      /\ powerCounter' = [powerCounter EXCEPT ![p] = out.powerCounter]
      /\ currentTarget' = TargetAfter(out.result, currentTarget)
      /\ score' = [score EXCEPT ![p] = ScoreAfter(out.result, @)]
      /\ last' = [op |-> "confirm", player |-> p, direction |-> 0,
                  from |-> position, result |-> out.result]
      /\ prev' = NoCall
      /\ UNCHANGED <<positionIndex, moveCount, power, innerHTML>>

\* --------------------------------------------------- Player.incrementPower
\* The buttons the game passes as opponentFoundElements.
OpponentFoundElements(opponent) ==
  {i \in Positions : getFoundClass(opponent) \in classList[i]}

\* Mutant: the opponent's counter is left as it is.
OpponentCounterKept(counter) == counter

\* opponent.powerCounter = 0
OpponentCounterAfter(counter) == 0

\* this.powerCounter += 1
CounterAfterIncrement(counter) == counter + 1

\* Mutant: the stolen marker is added and the found marker is left in place.
StealKeepsFound(classes, index, opponent) ==
  classes \cup {getStolenClass(index)}

\* The classList of the stolen element after the steal.
Steal(classes, index, opponent) ==
  (classes \ {getFoundClass(opponent)}) \cup {getStolenClass(index)}

\* Mutant: `return true` follows the power grant, outside the length test.
ReturnedOnEveryPower(counter, elements) ==
  IF counter = PowerThreshold THEN "true" ELSE "false"

\* The value incrementPower returns: true only from inside both tests.
Returned(counter, elements) ==
  IF counter = PowerThreshold /\ elements # {} THEN "true" ELSE "false"

IncrementPower(p) ==
  LET opponent == otherPlayerIndex(p)
      elements == OpponentFoundElements(opponent)
      counter == CounterAfterIncrement(powerCounter[p])
      call(result) == [op |-> "incrementPower", player |-> p, direction |-> 0,
                       from |-> positionIndex[p], result |-> result]
  IN  /\ powerCounter[p] < MaxCounter
      /\ counter = PowerThreshold => power[1] + power[2] < MaxPower
      /\ powerCounter' = [powerCounter EXCEPT
                            ![opponent] = OpponentCounterAfter(@),
                            ![p] = counter]
      /\ IF counter = PowerThreshold
         THEN /\ power' = [power EXCEPT ![p] = @ + 1]
              /\ IF elements # {}
                 THEN \E elementToSteal \in elements :
                        /\ classList' =
                             [classList EXCEPT ![elementToSteal] =
                                Steal(@, p, opponent)]
                        /\ last' = call(Returned(counter, elements))
                 ELSE /\ UNCHANGED classList
                      /\ last' = call(Returned(counter, elements))
         ELSE /\ UNCHANGED <<power, classList>>
              /\ last' = call(Returned(counter, elements))
      /\ prev' = NoCall
      /\ UNCHANGED <<positionIndex, moveCount, score, saves, stolen,
                     innerHTML, currentTarget>>

\* ----------------------------------------------------- game specification
\* A two-player local game: both players start on the default cell of a
\* shuffled board and move, confirm and gain power in any order.
Init ==
  /\ \E board \in Boards :
       Constructed([q \in Players |-> DefaultStart], board)
  /\ ClientConstructed
  /\ ConnConstructed(TRUE)
  /\ ServerStarted

\* The game always passes the board's buttons to move.
GameMove ==
  \E p \in Players, direction \in Directions :
    /\ moveCount[1] + moveCount[2] < MaxGameMoves
    /\ Move(p, direction, TRUE)
    /\ UNCHANGED <<clientVars, connVars, serverVars>>

GameConfirm ==
  \E p \in Players : Confirm(p) /\ UNCHANGED <<clientVars, connVars, serverVars>>

GameIncrementPower ==
  \E p \in Players : IncrementPower(p) /\ UNCHANGED <<clientVars, connVars, serverVars>>

Next == GameMove \/ GameConfirm \/ GameIncrementPower

Spec == Init /\ [][Next]_vars

\* ========================================================= MultiplayerGame
\* ------------------------------------------------------- server payloads
\* A room snapshot carries the current target and, per player, the position
\* and the score.  The snapshots explored always list both players.
Snapshot(target, position1, score1, score2) ==
  [currentTarget |-> target,
   players |-> [p \in Players |->
                  IF p = 1 THEN [position |-> position1, score |-> score1]
                  ELSE [position |-> DefaultStart, score |-> score2]]]

\* An early snapshot, snapshots at the last target and past it, and
\* snapshots with a score at and past the limit.
Snapshots ==
  {Snapshot(1, 1, 0, 0),
   Snapshot(TargetLimit, 2, ScoreLimit, 0),
   Snapshot(TargetLimit + 1, 2, ScoreLimit, 0),
   Snapshot(TargetLimit, 2, ScoreLimit + 1, 0),
   Snapshot(TargetLimit, 2, ScoreLimit, ScoreLimit + 1),
   Snapshot(TargetLimit + 1, 2, ScoreLimit + 1, 0)}

\* lastMove: absent, a move delta (also one wrongly carrying targetFound), or
\* a confirm delta.
NoLastMove == [type |-> "", targetFound |-> FALSE, playerId |-> 0]

LastMoves ==
  {NoLastMove,
   [type |-> "move", targetFound |-> TRUE, playerId |-> 1],
   [type |-> "confirm", targetFound |-> FALSE, playerId |-> 1],
   [type |-> "confirm", targetFound |-> TRUE, playerId |-> 1],
   [type |-> "confirm", targetFound |-> TRUE, playerId |-> 2]}

\* The rooms a game_start carries: a fresh game for one or two players.
StartRooms ==
  {[currentTarget |-> 1,
    players |-> [p \in roster |-> [position |-> DefaultStart, score |-> 0]],
    board |-> SwapPairs] : roster \in {{1}, {1, 2}}}

Payload(event, room, lastMove) ==
  [event |-> event, currentTarget |-> room.currentTarget,
   players |-> room.players, lastMove |-> lastMove]

ServerCall(event) == [op |-> event, player |-> 0, direction |-> 0,
                      from |-> 0, result |-> ""]

\* No key event is being dispatched: handlers run to completion.
Idle == pending.remaining = 0 /\ ~reloading

\* ------------------------------------------------- startMultiplayerGame
\* The board after MultiplayerBoard.init and the placing of the position
\* markers of the roster.
StartClasses(room) ==
  [i \in Positions |->
     {getPositionClass(p) :
        p \in {q \in DOMAIN room.players : room.players[q].position = i}}]

OnGameStart(room) ==
  /\ Idle
  /\ keyListeners < MaxListeners
  /\ gameRunning' = TRUE
  /\ players' = DOMAIN room.players
  /\ positionIndex' = [p \in Players |->
                         IF p \in DOMAIN room.players
                         THEN room.players[p].position ELSE DefaultStart]
  /\ moveCount' = [p \in Players |-> 0]
  /\ score' = [p \in Players |-> 0]
  /\ power' = [p \in Players |-> 0]
  /\ powerCounter' = [p \in Players |-> 0]
  /\ saves' = [p \in Players |-> 0]
  /\ stolen' = [p \in Players |-> 0]
  /\ innerHTML' = room.board
  /\ classList' = StartClasses(room)
  /\ currentTarget' = room.currentTarget
  /\ keyListeners' = keyListeners + 1
  /\ received' = Payload("game_start", room, NoLastMove)
  /\ last' = ServerCall("game_start")
  /\ prev' = NoCall
  /\ emitted' = <<>>
  /\ animated' = {}
  /\ foundApplied' = {}
  /\ gameOverShown' = 0
  /\ pending' = NoKey
  /\ UNCHANGED <<socketConnected, playerId, reloading>>

\* --------------------------------------------------------- updateGameState
\* The roster players the snapshot lists.
Reconciled(room) == players \cap DOMAIN room.players

\* MultiplayerPlayer.updatePosition for every reconciled player: the
\* position marker follows the server's position.
ClassesAfterPositions(room) ==
  LET updatePosition(classes, p) ==
        IF p \in Reconciled(room)
             /\ positionIndex[p] # room.players[p].position
        THEN [classes EXCEPT
                ![positionIndex[p]] = @ \ {getPositionClass(p)},
                ![room.players[p].position] = @ \cup {getPositionClass(p)}]
        ELSE classes
  IN  updatePosition(updatePosition(classList, 1), 2)

\* Mutant: the local player's previewed position is kept.
PositionAfterUpdateKeepsPreview(room, p) ==
  IF p \in Reconciled(room) /\ p # playerId
  THEN room.players[p].position ELSE positionIndex[p]

\* "Update position if changed".
PositionAfterUpdate(room, p) ==
  IF p \in Reconciled(room) THEN room.players[p].position
  ELSE positionIndex[p]

\* "Update score if changed".
ScoreAfterUpdate(room, p) ==
  IF p \in Reconciled(room) THEN room.players[p].score ELSE score[p]

\* Mutant: the type of the delta is not looked at.
FoundEffectDueUntyped(lastMove) ==
  lastMove.type # "" /\ lastMove.targetFound /\ lastMove.playerId \in players

\* "Only process targetFound when explicit confirmation happened", for a
\* player of the roster.
FoundEffectDue(lastMove) ==
  /\ lastMove.type # "" /\ lastMove.targetFound /\ lastMove.type = "confirm"
  /\ lastMove.playerId \in players

\* The buttons whose label is the target just found (at most one).
FoundButtons(target) == {i \in Positions : innerHTML[i] = target - 1}

\* Mutant: the game ends as soon as the last target is reached.
TargetExhaustedAtLimit(room) == room.currentTarget >= TargetLimit

\* "Check if the game is over".
TargetExhausted(room) == room.currentTarget > TargetLimit

\* "Check if any player has a score higher than 50".
HighScore(room) ==
  \E p \in DOMAIN room.players : room.players[p].score > ScoreLimit

UpdateGameState(room, lastMove) ==
  LET target == IF room.currentTarget # currentTarget
                THEN room.currentTarget ELSE currentTarget
      buttons == IF FoundEffectDue(lastMove) THEN FoundButtons(target) ELSE {}
      placed == ClassesAfterPositions(room)
      overByTarget == TargetExhausted(room)
      overByScore == HighScore(room) /\ (gameRunning /\ ~overByTarget)
  IN  /\ Idle
      /\ currentTarget' = target
      /\ positionIndex' = [p \in Players |-> PositionAfterUpdate(room, p)]
      /\ score' = [p \in Players |-> ScoreAfterUpdate(room, p)]
      /\ classList' = IF buttons = {} THEN placed
                      ELSE LET foundButton == CHOOSE i \in buttons : TRUE
                           IN  [placed EXCEPT ![foundButton] =
                                  @ \cup {getFoundClass(lastMove.playerId)}]
      /\ animated' = buttons
      /\ foundApplied' = foundApplied \cup {innerHTML[i] : i \in buttons}
      /\ gameRunning' = (gameRunning /\ ~overByTarget /\ ~overByScore)
      /\ gameOverShown' = (IF overByTarget THEN 1 ELSE 0)
                            + (IF overByScore THEN 1 ELSE 0)
      /\ received' = Payload("game_update", room, lastMove)
      /\ last' = ServerCall("game_update")
      /\ prev' = NoCall
      /\ emitted' = <<>>
      /\ pending' = NoKey
      /\ UNCHANGED <<moveCount, power, powerCounter, saves, stolen, innerHTML,
                     socketConnected, players, playerId, keyListeners,
                     reloading>>

\* ------------------------------------------------------- keyboard input
Keys == {"up", "right", "down", "left", "confirm", "other"}

\* The direction the listener gives a key of the player's controls.
DirectionOf(key) ==
  IF key = "up" THEN -10 ELSE IF key = "right" THEN 1
  ELSE IF key = "down" THEN 10 ELSE -1

DirectionKeys == {"up", "right", "down", "left"}

Message(event, position) ==
  [event |-> event, playerId |-> playerId, position |-> position]

\* Mutant: the intent carries the position the player had before the move.
MovePositionSentStale(before, after) == before

\* Mutant: intents are emitted whatever the connection.
CanEmitUnguarded == TRUE

\* if (this.socket && this.socketConnected)
CanEmit == socket # 0 /\ socketConnected

\* The position field of player_move: player.positionIndex after the move.
MovePositionSent(before, after) == after

\* A key goes down: the event is handed to every bound listener in turn.
KeyDown(key) ==
  /\ Idle
  /\ key \in DirectionKeys /\ gameRunning /\ playerId \in players
       => moveCount[playerId] < MaxClientMoves
  /\ pending' = [key |-> key, remaining |-> keyListeners]
  /\ emitted' = <<>>
  /\ animated' = {}
  /\ gameOverShown' = 0
  /\ received' = NoPayload
  /\ last' = ServerCall("keydown")
  /\ prev' = NoCall
  /\ UNCHANGED <<positionIndex, moveCount, score, power, powerCounter, saves,
                 stolen, innerHTML, classList, currentTarget, gameRunning,
                 socketConnected, players, playerId, keyListeners,
                 foundApplied, reloading>>

\* movePlayer(direction)
MovePlayer(direction) ==
  /\ Move(playerId, direction, TRUE)
  /\ emitted' = IF CanEmit
                THEN Append(emitted,
                            Message("player_move",
                                    MovePositionSent(positionIndex[playerId],
                                                     positionIndex'[playerId])))
                ELSE emitted

\* Mutant: the confirmation is scored locally before the server answers.
ConfirmSelectionOptimistic ==
  /\ emitted' = IF positionIndex[playerId] \in Positions /\ socketConnected
                THEN Append(emitted,
                            Message("player_confirm", positionIndex[playerId]))
                ELSE emitted
  /\ last' = ServerCall("confirmSelection")
  /\ score' = [score EXCEPT ![playerId] =
                 IF innerHTML[positionIndex[playerId]] = currentTarget
                 THEN @ + 1 ELSE @]
  /\ UNCHANGED <<positionIndex, moveCount, power, powerCounter, saves,
                 stolen, innerHTML, classList, currentTarget, prev>>

\* confirmSelection()
ConfirmSelection ==
  /\ emitted' = IF positionIndex[playerId] \in Positions /\ CanEmit
                THEN Append(emitted,
                            Message("player_confirm", positionIndex[playerId]))
                ELSE emitted
  /\ last' = ServerCall("confirmSelection")
  /\ UNCHANGED <<positionIndex, moveCount, score, power, powerCounter, saves,
                 stolen, innerHTML, classList, currentTarget, prev>>

\* Mutant: the listener does not look at gameRunning.
ListenerActiveAfterEnd == playerId \in players

\* "if (!this.gameRunning) return" and "if (!player) return".
ListenerActive == gameRunning /\ playerId \in players

\* One bound keydown listener handles the key being dispatched.
Listener ==
  /\ pending.remaining > 0
  /\ pending' = [pending EXCEPT !.remaining = @ - 1]
  /\ IF ListenerActive /\ pending.key \in DirectionKeys
     THEN MovePlayer(DirectionOf(pending.key))
     ELSE IF ListenerActive /\ pending.key = "confirm"
     THEN ConfirmSelection
     ELSE UNCHANGED <<playerVars, emitted>>
  /\ UNCHANGED <<gameRunning, socketConnected, players, playerId,
                 keyListeners, received, animated, foundApplied,
                 gameOverShown, reloading>>

\* reset(): the game state is cleared and the page reloaded; no handler of
\* this page runs after that.
Reset ==
  /\ Idle
  /\ gameRunning' = FALSE
  /\ currentTarget' = 1
  /\ players' = {}
  /\ reloading' = TRUE
  /\ last' = ServerCall("reset")
  /\ prev' = NoCall
  /\ pending' = NoKey
  /\ received' = NoPayload
  /\ emitted' = <<>>
  /\ animated' = {}
  /\ gameOverShown' = 0
  /\ UNCHANGED <<positionIndex, moveCount, score, power, powerCounter, saves,
                 stolen, innerHTML, classList, socketConnected, playerId,
                 keyListeners, foundApplied>>

\* ---------------------------------------------------------- socket events
\* What every handler leaves of the previous handler's outputs.
HandlerBegins(event) ==
  /\ last' = ServerCall(event)
  /\ prev' = NoCall
  /\ pending' = NoKey
  /\ received' = NoPayload
  /\ emitted' = <<>>
  /\ animated' = {}
  /\ gameOverShown' = 0

\* What the connection handlers leave alone: the game, and the server.
GameUntouched ==
  /\ UNCHANGED <<positionIndex, moveCount, score, power, powerCounter, saves,
                 stolen, innerHTML, classList, currentTarget, gameRunning,
                 players, playerId, keyListeners, foundApplied, reloading>>
  /\ UNCHANGED serverVars

\* this.ui is set once the 800 ms timer of init() has fired.
ui == uiTimer = "fired"

\* updateConnectionStatus(status, text): the indicator takes the class and
\* the text on the zero-delay timer the call sets; such timers run in the
\* order of the calls, so the indicator ends on the last call's values.
updateConnectionStatus(class, text) ==
  status' = [class |-> class, text |-> text]

\* if (this.ui) this.ui.showToast(message)
showToast(message) == toast' = IF ui THEN message ELSE toast

\* initializeSocket()
initializeSocket ==
  /\ attempts < MaxAttempts
  /\ attempts' = attempts + 1
  /\ IF ~ioDefined
     THEN /\ updateConnectionStatus("disconnected", "Socket.io Not Available")
          /\ noticeTimer' = "pending"
          /\ UNCHANGED <<sockets, socket, connectionTimeout, timers>>
     ELSE LET created == attempts + 1
          IN  /\ sockets' = [sockets EXCEPT ![created] = "connecting"]
              /\ socket' = created
              /\ connectionTimeout' = created
              /\ timers' = [timers EXCEPT ![created] = "pending"]
              /\ UNCHANGED <<status, noticeTimer>>

\* init(): the first connection attempt, then the timer that builds the UI.
GameInit ==
  /\ uiTimer = "unset"
  /\ initializeSocket
  /\ uiTimer' = "pending"
  /\ HandlerBegins("init")
  /\ GameUntouched
  /\ UNCHANGED <<socketConnected, ioDefined, roomCode, isHost, isReady, retryTimer,
                 reconnectionAttempted, toast>>

\* The 800 ms timer of init() fires.
UiInit ==
  /\ uiTimer = "pending"
  /\ uiTimer' = "fired"
  /\ HandlerBegins("uiInit")
  /\ GameUntouched
  /\ UNCHANGED <<socketConnected, ioDefined, roomCode, isHost, isReady, noticeTimer, sockets, socket,
                 connectionTimeout, timers, retryTimer, reconnectionAttempted,
                 status, toast, attempts>>

\* The 1000 ms timer set when socket.io is missing fires, after the 800 ms
\* one set in the same run of init().
NoticeFires ==
  /\ noticeTimer = "pending" /\ ui
  /\ noticeTimer' = "fired"
  /\ showToast("Socket.io not available")
  /\ HandlerBegins("notice")
  /\ GameUntouched
  /\ UNCHANGED <<socketConnected, ioDefined, roomCode, isHost, isReady, uiTimer, sockets, socket,
                 connectionTimeout, timers, retryTimer, reconnectionAttempted,
                 status, attempts>>

\* Mutant: the retry is scheduled after every timeout.
RetryAlways == TRUE

\* "Try reconnecting once automatically".
RetryAllowed == ~reconnectionAttempted

\* The 15 s connection timeout of an attempt fires; the 800 ms timer set
\* before it has fired by then.
ConnectionTimeoutFires(a) ==
  /\ timers[a] = "pending" /\ ui
  /\ timers' = [timers EXCEPT ![a] = "fired"]
  /\ IF ~socketConnected
     THEN /\ updateConnectionStatus("disconnected", "Connection Timeout")
          /\ IF RetryAllowed
             THEN /\ reconnectionAttempted' = TRUE
                  /\ showToast("Attempting to reconnect")
                  /\ sockets' = [sockets EXCEPT ![socket] = "closed"]
                  /\ retryTimer' = "pending"
             ELSE /\ showToast("Connection timed out")
                  /\ UNCHANGED <<reconnectionAttempted, sockets, retryTimer>>
     ELSE UNCHANGED <<status, toast, reconnectionAttempted, sockets,
                      retryTimer>>
  /\ HandlerBegins("connectionTimeout")
  /\ GameUntouched
  /\ UNCHANGED <<socketConnected, ioDefined, roomCode, isHost, isReady, uiTimer, noticeTimer, socket,
                 connectionTimeout, attempts>>

\* The 2 s retry timer fires.
RetryFires ==
  /\ retryTimer = "pending"
  /\ retryTimer' = "fired"
  /\ initializeSocket
  /\ HandlerBegins("retry")
  /\ GameUntouched
  /\ UNCHANGED <<socketConnected, ioDefined, roomCode, isHost, isReady, uiTimer, reconnectionAttempted,
                 toast>>

\* A socket the client has not closed may still reach the server.
Live(s) == sockets[s] \in {"connecting", "waiting"}

\* socket.on('connect')
OnConnect(s) ==
  /\ Idle
  /\ Live(s)
  /\ sockets' = [sockets EXCEPT ![s] = "connected"]
  /\ socketConnected' = TRUE
  /\ updateConnectionStatus("connected", "Connected")
  /\ timers' = IF connectionTimeout # 0 /\ timers[connectionTimeout] = "pending"
               THEN [timers EXCEPT ![connectionTimeout] = "cleared"]
               ELSE timers
  /\ HandlerBegins("connect")
  /\ GameUntouched
  /\ UNCHANGED <<ioDefined, roomCode, isHost, isReady, uiTimer, noticeTimer, socket, connectionTimeout,
                 retryTimer, reconnectionAttempted, toast, attempts>>

\* socket.on('disconnect'): the transport is lost and socket.io starts
\* reconnecting by itself.
OnDisconnect(s) ==
  /\ Idle
  /\ sockets[s] = "connected"
  /\ sockets' = [sockets EXCEPT ![s] = "waiting"]
  /\ socketConnected' = FALSE
  /\ updateConnectionStatus("disconnected", "Disconnected")
  /\ showToast("Disconnected from server")
  /\ HandlerBegins("disconnect")
  /\ GameUntouched
  /\ UNCHANGED <<ioDefined, roomCode, isHost, isReady, uiTimer, noticeTimer, socket, connectionTimeout,
                 timers, retryTimer, reconnectionAttempted, attempts>>

\* socket.on('connect_error'): socket.io tries again or, its
\* reconnectionAttempts used up, gives up.
OnConnectError(s, givesUp) ==
  /\ Idle
  /\ Live(s)
  /\ sockets' = [sockets EXCEPT ![s] = IF givesUp THEN "failed" ELSE @]
  /\ socketConnected' = FALSE
  /\ updateConnectionStatus("disconnected", "Connection Error")
  /\ showToast("Error connecting to server")
  /\ HandlerBegins("connect_error")
  /\ GameUntouched
  /\ UNCHANGED <<ioDefined, roomCode, isHost, isReady, uiTimer, noticeTimer, socket, connectionTimeout,
                 timers, retryTimer, reconnectionAttempted, attempts>>

\* ------------------------------------------------------------ the lobby
RoomCodes == {"ROOM"}

\* createRoom(roomData) and joinRoom(joinData), called from the UI.
EnterRoom(event) ==
  /\ Idle /\ ui
  /\ last' = ServerCall(event)
  /\ prev' = NoCall
  /\ pending' = NoKey
  /\ received' = NoPayload
  /\ animated' = {}
  /\ gameOverShown' = 0
  /\ IF ~CanEmit
     THEN /\ toast' = "Not connected to server"
          /\ emitted' = <<>>
     ELSE /\ emitted' = <<Message(event, 0)>>
          /\ UNCHANGED toast
  /\ GameUntouched
  /\ UNCHANGED <<socketConnected, ioDefined, uiTimer, noticeTimer, sockets,
                 socket, connectionTimeout, timers, retryTimer,
                 reconnectionAttempted, status, attempts, roomCode, isHost,
                 isReady>>

\* setReady(isReady), called from the waiting room.
SetReady(flag) ==
  /\ Idle /\ ui
  /\ isReady' = flag
  /\ last' = ServerCall("setReady")
  /\ prev' = NoCall
  /\ pending' = NoKey
  /\ received' = NoPayload
  /\ animated' = {}
  /\ gameOverShown' = 0
  /\ IF ~CanEmit
     THEN /\ toast' = "Not connected to server"
          /\ emitted' = <<>>
     ELSE /\ emitted' = <<Message("player_ready", 0)>>
          /\ UNCHANGED toast
  /\ GameUntouched
  /\ UNCHANGED <<socketConnected, ioDefined, uiTimer, noticeTimer, sockets,
                 socket, connectionTimeout, timers, retryTimer,
                 reconnectionAttempted, status, attempts, roomCode, isHost>>

\* socket.on('room_created') and socket.on('room_joined'); hosts is whether
\* the room's host is this socket.
OnRoomEntered(s, event, code, id, hosts) ==
  /\ Idle /\ ui
  /\ sockets[s] = "connected"
  /\ roomCode' = code
  /\ playerId' = id
  /\ isHost' = IF event = "room_created" THEN TRUE ELSE hosts
  /\ toast' = event
  /\ last' = ServerCall(event)
  /\ prev' = NoCall
  /\ pending' = NoKey
  /\ received' = NoPayload
  /\ emitted' = <<>>
  /\ animated' = {}
  /\ gameOverShown' = 0
  /\ UNCHANGED <<positionIndex, moveCount, score, power, powerCounter, saves,
                 stolen, innerHTML, classList, currentTarget, gameRunning,
                 players, keyListeners, foundApplied, reloading>>
  /\ UNCHANGED <<socketConnected, ioDefined, uiTimer, noticeTimer, sockets,
                 socket, connectionTimeout, timers, retryTimer,
                 reconnectionAttempted, status, attempts, isReady>>
  /\ UNCHANGED serverVars

\* ---------------------------------------------------- client specification
\* The first attempt connected before its deadline and the UI is up.
ConnEstablished ==
  /\ ioDefined = TRUE
  /\ uiTimer = "fired"
  /\ noticeTimer = "unset"
  /\ sockets = [a \in Attempts |-> IF a = 1 THEN "connected" ELSE "none"]
  /\ socket = 1
  /\ connectionTimeout = 1
  /\ timers = [a \in Attempts |-> IF a = 1 THEN "cleared" ELSE "unset"]
  /\ retryTimer = "unset"
  /\ reconnectionAttempted = FALSE
  /\ status = [class |-> "connected", text |-> "Connected"]
  /\ toast = ""
  /\ attempts = 1
  /\ roomCode = "ROOM"
  /\ isHost = TRUE
  /\ isReady = TRUE

\* The client is connected and holds the id the server gave it on
\* room_created; no game has started.
InitClient ==
  /\ Constructed([q \in Players |-> DefaultStart], SwapPairs)
  /\ gameRunning = FALSE
  /\ socketConnected = TRUE
  /\ players = {}
  /\ playerId = 1
  /\ keyListeners = 0
  /\ pending = NoKey
  /\ received = NoPayload
  /\ emitted = <<>>
  /\ animated = {}
  /\ foundApplied = {}
  /\ gameOverShown = 0
  /\ reloading = FALSE
  /\ ConnEstablished
  /\ ServerStarted

GameStart ==
  /\ \E room \in StartRooms : OnGameStart(room)
  /\ UNCHANGED <<connVars, serverVars>>

GameUpdate ==
  /\ \E room \in Snapshots, lastMove \in LastMoves :
       UpdateGameState(room, lastMove)
  /\ UNCHANGED <<connVars, serverVars>>

KeyPress ==
  (\E key \in Keys : KeyDown(key)) /\ UNCHANGED <<connVars, serverVars>>

KeyListener == Listener /\ UNCHANGED <<connVars, serverVars>>

Connect == \E s \in Attempts : OnConnect(s)

Disconnect == \E s \in Attempts : OnDisconnect(s)

PlayAgain == Reset /\ UNCHANGED <<connVars, serverVars>>

NextClient ==
  \/ GameStart \/ GameUpdate \/ KeyPress \/ KeyListener \/ Connect
  \/ Disconnect \/ PlayAgain

SpecClient == InitClient /\ [][NextClient]_vars

\* ------------------------------------------------ connection specification
\* A constructed client whose page did or did not load socket.io.
InitConnect ==
  /\ Constructed([q \in Players |-> DefaultStart], SwapPairs)
  /\ ClientConstructed
  /\ \E io \in BOOLEAN : ConnConstructed(io)
  /\ ServerStarted

Timeout == \E a \in Attempts : ConnectionTimeoutFires(a)

ConnectError ==
  \E s \in Attempts, givesUp \in BOOLEAN : OnConnectError(s, givesUp)

CreateRoom == EnterRoom("create_room")

JoinRoom == EnterRoom("join_room")

RoomCreated ==
  \E s \in Attempts, code \in RoomCodes, id \in Players :
    OnRoomEntered(s, "room_created", code, id, TRUE)

RoomJoined ==
  \E s \in Attempts, code \in RoomCodes, id \in Players, hosts \in BOOLEAN :
    OnRoomEntered(s, "room_joined", code, id, hosts)

Ready == \E flag \in BOOLEAN : SetReady(flag)

\* game_start reaches the client over a connected socket.
StartReceived == (\E s \in Attempts : sockets[s] = "connected") /\ GameStart

\* The keys pressed while the connection is followed: one that moves and
\* the one that confirms.
ConnectKeys == {"right", "confirm"}

ConnectKeyPress ==
  (\E key \in ConnectKeys : KeyDown(key)) /\ UNCHANGED <<connVars, serverVars>>

NextConnect ==
  \/ GameInit \/ UiInit \/ NoticeFires \/ Timeout \/ RetryFires
  \/ Connect \/ Disconnect \/ ConnectError
  \/ CreateRoom \/ JoinRoom \/ RoomCreated \/ RoomJoined \/ Ready
  \/ StartReceived \/ ConnectKeyPress \/ KeyListener

SpecConnect == InitConnect /\ [][NextConnect]_vars

\* ================================================= the relay server's rooms
\* A roster holds at most 10 players; a countdown needs at least 2.
RosterLimit == 10
MinPlayers == 2

\* The one room code the server hands out, and a code it never did.
ServerCodes == {"ROOM", "NONE"}

Members == {roomPlayers[k] : k \in 1..Len(roomPlayers)}

Answer(event, error) == [event |-> event, error |-> error, code |-> ""]

\* Nothing of the client is the server's to change.
ClientUntouched == UNCHANGED <<playerVars, clientVars, connVars>>

\* createRoom(hostInfo): a room in lobby with the host as its first player.
createRoom ==
  /\ "ROOM" \notin rooms
  /\ nextId <= MaxIds
  /\ rooms' = {"ROOM"}
  /\ roomPlayers' = <<nextId>>
  /\ host' = nextId
  /\ readySet' = {}
  /\ phase' = "lobby"
  /\ nextId' = nextId + 1
  /\ reply' = Answer("room_created", "")
  /\ UNCHANGED <<leaves, readyCalls>>
  /\ ClientUntouched

\* Mutant: the roster takes one player more.
JoinErrorOffByOne(code) ==
  IF code \notin rooms THEN "RoomNotFound"
  ELSE IF Len(roomPlayers) > RosterLimit THEN "RoomFull"
  ELSE IF phase # "lobby" THEN "InvalidPhase"
  ELSE ""

\* The error joinRoom fails with, "" when it succeeds.
JoinError(code) ==
  IF code \notin rooms THEN "RoomNotFound"
  ELSE IF Len(roomPlayers) >= RosterLimit THEN "RoomFull"
  ELSE IF phase # "lobby" THEN "InvalidPhase"
  ELSE ""

\* joinRoom(code, playerInfo)
joinRoom(code) ==
  /\ nextId <= MaxIds
  /\ IF JoinError(code) # ""
     THEN /\ reply' = [Answer("error", JoinError(code)) EXCEPT !.code = code]
          /\ UNCHANGED <<roomPlayers, nextId>>
     ELSE /\ reply' = [Answer("room_joined", "") EXCEPT !.code = code]
          /\ roomPlayers' = Append(roomPlayers, nextId)
          /\ nextId' = nextId + 1
  /\ UNCHANGED <<rooms, readySet, host, phase, leaves, readyCalls>>
  /\ ClientUntouched

\* Mutant: one ready player is enough.
CountdownDueAnyReady(ready, members) == ready # {}

\* All players ready and at least 2 present.
CountdownDue(ready, members) ==
  ready = members /\ Cardinality(members) >= MinPlayers

\* setReady(code, playerId, flag)
setReady(id, flag) ==
  /\ id \in Members
  /\ readyCalls < MaxReadyCalls
  /\ readyCalls' = readyCalls + 1
  /\ readySet' = IF flag THEN readySet \cup {id} ELSE readySet \ {id}
  /\ phase' = IF phase = "lobby" /\ CountdownDue(readySet', Members)
              THEN "countdown" ELSE phase
  /\ reply' = Answer("player_update", "")
  /\ UNCHANGED <<rooms, roomPlayers, host, nextId, leaves>>
  /\ ClientUntouched

\* The countdown sequence has elapsed.
CountdownElapsed ==
  /\ phase = "countdown"
  /\ phase' = "playing"
  /\ reply' = Answer("game_start", "")
  /\ UNCHANGED <<rooms, roomPlayers, readySet, host, nextId, leaves,
                 readyCalls>>
  /\ ClientUntouched

\* Mutant: the host goes to the player that joined last.
NextHostLatest(remaining) == remaining[Len(remaining)]

\* The next player in join order.
NextHost(remaining) == Head(remaining)

\* leaveRoom / disconnect of player id.
leaveRoom(id) ==
  LET remaining == SelectSeq(roomPlayers, LAMBDA q : q # id)
  IN  /\ id \in Members
      /\ leaves < MaxLeaves
      /\ leaves' = leaves + 1
      /\ roomPlayers' = remaining
      /\ readySet' = readySet \ {id}
      /\ IF remaining = <<>>
         THEN /\ rooms' = {}
              /\ host' = 0
              /\ phase' = ""
              /\ reply' = Answer("", "")
         ELSE /\ host' = IF id = host THEN NextHost(remaining) ELSE host
              /\ reply' = Answer(IF id = host THEN "host_changed"
                                 ELSE "player_left", "")
              /\ UNCHANGED <<rooms, phase>>
      /\ UNCHANGED <<nextId, readyCalls>>
      /\ ClientUntouched

\* ---------------------------------------------------- server specification
InitServer ==
  /\ Constructed([q \in Players |-> DefaultStart], SwapPairs)
  /\ ClientConstructed
  /\ ConnConstructed(TRUE)
  /\ ServerStarted

ServerJoin == \E code \in ServerCodes : joinRoom(code)

ServerReady == \E id \in 1..MaxIds, flag \in BOOLEAN : setReady(id, flag)

ServerLeave == \E id \in 1..MaxIds : leaveRoom(id)

NextServer ==
  createRoom \/ ServerJoin \/ ServerReady \/ CountdownElapsed \/ ServerLeave

SpecServer == InitServer /\ [][NextServer]_vars

\* ================================================================== claims
StolenMarkers == {getStolenClass(p) : p \in Players}

Markers == {getFoundClass(p) : p \in Players} \cup StolenMarkers

\* The last call was a completed move / the step being taken is one.
Moved(call) == call.op = "move" /\ call.result = "moved"

\* C1: after any sequence of moves from any start position, every player's
\* positionIndex is in 1..100.
C1Theorem == \A p \in Players : positionIndex[p] \in Positions

C1Witness ==
  /\ Moved(last) /\ last.from = BoardSize /\ last.direction = 10
  /\ positionIndex[last.player] = 1

\* C2: a vertical move (direction -10 or +10) never changes the column of
\* the player's position.
C2Claim ==
  [][(Moved(last') /\ last'.direction \in {-10, 10})
       => ColOf(positionIndex'[last'.player])
            = ColOf(positionIndex[last'.player])]_vars

\* C3: move(+1) from p yields (p mod 100) + 1 and move(-1) from p yields
\* ((p - 2) mod 100) + 1.
C3Claim ==
  [][Moved(last')
       => LET p == positionIndex[last'.player]
              q == positionIndex'[last'.player]
          IN  /\ last'.direction = 1 => q = (p % BoardSize) + 1
              /\ last'.direction = -1 => q = ((p - 2) % BoardSize) + 1]_vars

\* C4: from a position in 1..99, move(+1) followed by move(-1) of the same
\* player brings the player back to that position.
C4Undo ==
  /\ Moved(prev) /\ prev.direction = 1 /\ prev.from \in 1..(BoardSize - 1)
  /\ Moved(last) /\ last.direction = -1 /\ last.player = prev.player

C4Theorem == C4Undo => positionIndex[last.player] = prev.from

C4Witness == C4Undo /\ prev.from = 1 /\ positionIndex[last.player] = 1

\* C5: a confirm returns true exactly when the label under the player is the
\* current target, a find marks the cell found-by-player, and the target
\* changes only by +1 and only in a confirm on the cell holding the target.
C5Theorem ==
  [][/\ last'.op = "confirm"
          => LET p == last'.player
                 position == positionIndex[p]
             IN  /\ (last'.result = "true")
                      <=> (innerHTML[position] = currentTarget)
                 /\ last'.result = "true"
                      => getFoundClass(p) \in classList'[position]
     /\ currentTarget' # currentTarget
          => /\ currentTarget' = currentTarget + 1
             /\ last'.op = "confirm"
             /\ innerHTML[positionIndex[last'.player]] = currentTarget]_vars

C5Witness ==
  /\ last.op = "confirm" /\ last.result = "true"
  /\ innerHTML[last.from] = currentTarget - 1
  /\ getFoundClass(last.player) \in classList[last.from]
  /\ \E i \in Positions : classList[i] \cap StolenMarkers # {}

\* C6: a confirm on a cell whose label is not the target and that carries no
\* stolen marker returns false and changes no marker and no counter.
C6Theorem ==
  [][(/\ last'.op = "confirm"
      /\ innerHTML[positionIndex[last'.player]] # currentTarget
      /\ classList[positionIndex[last'.player]] \cap StolenMarkers = {})
       => /\ last'.result = "false"
          /\ UNCHANGED <<positionIndex, moveCount, score, power, powerCounter,
                         saves, stolen, innerHTML, classList,
                         currentTarget>>]_vars

C6Witness ==
  /\ last.op = "confirm" /\ last.result = "false"
  /\ powerCounter[last.player] > 0
  /\ getFoundClass(otherPlayerIndex(last.player)) \in classList[last.from]

\* C7: a confirm on a non-target cell marked stolen-by-opponent replaces the
\* stolen marker by found-by-player, adds 1 to saves, sets powerCounter to 0
\* and leaves stolen unchanged.
C7Theorem ==
  [][(/\ last'.op = "confirm"
      /\ innerHTML[positionIndex[last'.player]] # currentTarget
      /\ getStolenClass(otherPlayerIndex(last'.player))
           \in classList[positionIndex[last'.player]])
       => LET p == last'.player
              position == positionIndex[p]
          IN  /\ classList'[position]
                   = (classList[position]
                        \ {getStolenClass(otherPlayerIndex(p))})
                       \cup {getFoundClass(p)}
              /\ saves'[p] = saves[p] + 1
              /\ powerCounter'[p] = 0
              /\ stolen'[p] = stolen[p]]_vars

C7Witness ==
  /\ last.op = "confirm" /\ last.result = "saved"
  /\ saves[last.player] = 1 /\ stolen[last.player] = 0
  /\ classList[last.from] \cap Markers = {getFoundClass(last.player)}

\* C8: a confirm on a non-target cell marked stolen-by-self replaces the
\* stolen marker by found-by-player, adds 1 to stolen, sets powerCounter to 0
\* and leaves saves unchanged.
C8Theorem ==
  [][(/\ last'.op = "confirm"
      /\ innerHTML[positionIndex[last'.player]] # currentTarget
      /\ getStolenClass(last'.player)
           \in classList[positionIndex[last'.player]])
       => LET p == last'.player
              position == positionIndex[p]
          IN  /\ classList'[position]
                   = (classList[position] \ {getStolenClass(p)})
                       \cup {getFoundClass(p)}
              /\ stolen'[p] = stolen[p] + 1
              /\ powerCounter'[p] = 0
              /\ saves'[p] = saves[p]]_vars

C8Witness ==
  /\ last.op = "confirm" /\ last.result = "stolen-recovered"
  /\ stolen[last.player] = 1 /\ saves[last.player] = 0
  /\ power[last.player] = 1 /\ powerCounter[last.player] = 0
  /\ classList[last.from] \cap Markers = {getFoundClass(last.player)}

\* C9: in every state of a game no cell carries two markers: each cell is
\* free, found by one player or stolen by one player.
C9Theorem ==
  \A i \in Positions : Cardinality(classList[i] \cap Markers) <= 1

C9Witness ==
  /\ last.op = "incrementPower" /\ last.result = "true"
  /\ \E i, j \in Positions :
       /\ classList[i] \cap Markers = {getFoundClass(last.player)}
       /\ classList[j] \cap Markers = {getStolenClass(last.player)}

\* C10: every player's powerCounter is 0, 1 or 2 in every reachable state.
C10Claim ==
  \A p \in Players : powerCounter[p] \in 0..(PowerThreshold - 1)

\* The step being taken is incrementPower called on player p.
PowerCall(p) == last'.op = "incrementPower" /\ last'.player = p

\* The cells marked found-by-player before the step.
FoundBy(p) == {i \in Positions : getFoundClass(p) \in classList[i]}

\* C11: an incrementPower call that brings powerCounter to 3 while the
\* opponent has no found cell returns false and changes no cell marker.
C11Theorem ==
  [][\A p \in Players :
       (/\ PowerCall(p)
        /\ powerCounter[p] + 1 = PowerThreshold
        /\ FoundBy(otherPlayerIndex(p)) = {})
         => /\ last'.result = "false"
            /\ classList' = classList]_vars

C11Witness ==
  /\ last.op = "incrementPower" /\ last.result = "false"
  /\ powerCounter[last.player] = PowerThreshold
  /\ power[last.player] = 1
  /\ FoundBy(otherPlayerIndex(last.player)) = {}
  /\ FoundBy(last.player) # {}

\* Exactly one cell e goes from found-by-opponent to stolen-by-p, every
\* other cell keeps its classes.
OneCellStolen(p) ==
  \E e \in FoundBy(otherPlayerIndex(p)) :
    /\ classList'[e] = (classList[e] \ {getFoundClass(otherPlayerIndex(p))})
                         \cup {getStolenClass(p)}
    /\ \A i \in Positions \ {e} : classList'[i] = classList[i]

\* C12 as stated: a call that brings powerCounter to 3 while the opponent
\* has a found cell steals one cell and adds 1 to power; every other
\* incrementPower call changes no marker and leaves power unchanged.
C12Claim ==
  [][\A p \in Players :
       PowerCall(p)
         => IF /\ powerCounter[p] + 1 = PowerThreshold
               /\ FoundBy(otherPlayerIndex(p)) # {}
            THEN OneCellStolen(p) /\ power'[p] = power[p] + 1
            ELSE classList' = classList /\ power' = power]_vars

\* C12 amended: the power is granted on every call that brings powerCounter
\* to 3, the steal only when the opponent has a found cell; a call that does
\* not bring powerCounter to 3 changes no marker and leaves power unchanged.
C12Theorem ==
  [][\A p \in Players :
       PowerCall(p)
         => /\ power'[otherPlayerIndex(p)] = power[otherPlayerIndex(p)]
            /\ IF powerCounter[p] + 1 = PowerThreshold
               THEN /\ power'[p] = power[p] + 1
                    /\ IF FoundBy(otherPlayerIndex(p)) # {}
                       THEN OneCellStolen(p) /\ last'.result = "true"
                       ELSE classList' = classList
               ELSE classList' = classList /\ power' = power]_vars

C12Witness ==
  /\ last.op = "incrementPower" /\ last.result = "true"
  /\ power[last.player] = 1
  /\ \E i \in Positions :
       classList[i] \cap Markers = {getStolenClass(last.player)}

\* The step being taken handles a game_update / the last handler did.
Updated(payload) == payload.event = "game_update"

FoundMarkers == {getFoundClass(p) : p \in Players}

\* C13: a game_update whose lastMove is not tagged confirm adds no found
\* marker and animates no cell, whatever its targetFound says; only a
\* confirm delta with targetFound true does.
C13Theorem ==
  [][(/\ Updated(received')
      /\ \/ animated' # {}
         \/ \E i \in Positions :
              (classList'[i] \cap FoundMarkers) \ classList[i] # {})
       => /\ received'.lastMove.type = "confirm"
          /\ received'.lastMove.targetFound]_vars

C13Witness ==
  /\ Updated(received)
  /\ received.lastMove.type = "move" /\ received.lastMove.targetFound
  /\ received.lastMove.playerId \in players
  /\ \E i \in Positions : innerHTML[i] = currentTarget - 1
  /\ animated = {}
  /\ \A i \in Positions : classList[i] \cap FoundMarkers = {}

\* C14: the found marker and animation of a found target are applied once:
\* no game_update applies them to a label they were already applied to
\* since the game started.
C14Claim ==
  [][Updated(received')
       => \A i \in animated' : innerHTML[i] \notin foundApplied]_vars

\* C15: right after a game_update the local target is the snapshot's and
\* every roster player listed in the snapshot has the snapshot's position
\* and score.
C15Theorem ==
  Updated(received)
    => /\ currentTarget = received.currentTarget
       /\ \A p \in players \cap DOMAIN received.players :
            /\ positionIndex[p] = received.players[p].position
            /\ score[p] = received.players[p].score

C15Witness ==
  /\ Updated(received)
  /\ moveCount[playerId] > 0
  /\ players = {1}
  /\ positionIndex[1] = 2 /\ received.players[1].position = 2
  /\ score[1] = ScoreLimit
  /\ getPositionClass(1) \in classList[2]

\* The snapshot ends the game: target past 100 or a score past 50.
Ending(payload) ==
  \/ payload.currentTarget > 100
  \/ \E p \in DOMAIN payload.players : payload.players[p].score > 50

\* C16: a running game is finished by a game_update (gameRunning false,
\* game over shown) exactly when the snapshot's target exceeds 100 or a
\* snapshot score exceeds 50; otherwise it keeps running.
C16Theorem ==
  [][(gameRunning /\ Updated(received'))
       => IF Ending(received')
          THEN ~gameRunning' /\ gameOverShown' >= 1
          ELSE gameRunning' /\ gameOverShown' = 0]_vars

C16Witness ==
  /\ Updated(received)
  /\ received.currentTarget = 100
  /\ received.players[1].score = 50
  /\ ~Ending(received)
  /\ gameRunning /\ gameOverShown = 0

\* C17: a listener handling a direction key of the running game sets the
\* local position by the move rule and, when the socket is connected, emits
\* in the same step one player_move carrying that new position.
C17Theorem ==
  [][(/\ pending.remaining > 0 /\ pending.key \in DirectionKeys
      /\ gameRunning /\ playerId \in players)
       => /\ positionIndex'[playerId]
               = NewPosition(positionIndex[playerId], DirectionOf(pending.key))
          /\ emitted' = IF socketConnected
                        THEN Append(emitted,
                                    [event |-> "player_move",
                                     playerId |-> playerId,
                                     position |-> positionIndex'[playerId]])
                        ELSE emitted]_vars

C17Witness ==
  /\ last.op = "move" /\ socketConnected /\ gameRunning
  /\ Len(emitted) = 1
  /\ emitted[1].event = "player_move"
  /\ emitted[1].position = positionIndex[playerId]
  /\ positionIndex[playerId] # last.from

\* The deadline of the retry (the second attempt) expires unconnected.
RetryDeadlineExpires ==
  timers[2] = "pending" /\ timers'[2] = "fired" /\ ~socketConnected

\* C18: initializeSocket is called at most twice; when the retry's deadline
\* expires unconnected the status becomes disconnected, and from then on no
\* retry is pending and no third attempt is made.
C18Theorem ==
  /\ [](attempts <= 2)
  /\ [][RetryDeadlineExpires
          => status'.class = "disconnected" /\ retryTimer' # "pending"]_vars
  /\ [](timers[2] = "fired" => retryTimer # "pending" /\ attempts = 2)

C18Witness ==
  /\ timers[1] = "fired" /\ timers[2] = "fired"
  /\ retryTimer = "fired"
  /\ attempts = 2
  /\ ~socketConnected
  /\ status = [class |-> "disconnected", text |-> "Connection Timeout"]

\* C19: once the connection timeout of an attempt has fired with the
\* socket unconnected, that attempt's socket is closed for good: it never
\* connects afterwards.
C19Claim ==
  [][\A a \in Attempts :
       timers[a] = "fired" /\ sockets[a] # "connected"
         => sockets'[a] # "connected"]_vars

\* The markers of the board other than the local player's position marker.
OtherMarkers(classes) ==
  [i \in Positions |-> classes[i] \ {getPositionClass(playerId)}]

\* The step changes the target, a score, a position other than the local
\* player's, a cell marker or gameRunning.
GameStateChanges ==
  \/ currentTarget' # currentTarget
  \/ score' # score
  \/ gameRunning' # gameRunning
  \/ \E q \in Players \ {playerId} : positionIndex'[q] # positionIndex[q]
  \/ OtherMarkers(classList') # OtherMarkers(classList)

\* A listener is handling the confirm key of the running game.
ConfirmHandled ==
  /\ pending.remaining > 0 /\ pending.key = "confirm"
  /\ gameRunning /\ playerId \in players

\* C21 as stated: confirmSelection changes no local game state, and the
\* game state changes only while game_start or game_update is handled.
C21Claim ==
  [][/\ ConfirmHandled
          => UNCHANGED <<currentTarget, score, positionIndex, classList,
                         gameRunning>>
     /\ GameStateChanges => last'.op \in {"game_start", "game_update"}]_vars

\* C21: confirmSelection changes no local game state, and the game state
\* changes only while game_start or game_update is handled or in reset(),
\* which clears it before the page reloads.
C21Theorem ==
  [][/\ ConfirmHandled
          => UNCHANGED <<currentTarget, score, positionIndex, classList,
                         gameRunning>>
     /\ GameStateChanges
          => last'.op \in {"game_start", "game_update", "reset"}]_vars

C21Witness ==
  /\ last.op = "confirmSelection"
  /\ gameRunning /\ socketConnected
  /\ innerHTML[positionIndex[playerId]] = currentTarget
  /\ score[playerId] = 0
  /\ Len(emitted) >= 1 /\ emitted[1].event = "player_confirm"
  /\ \A i \in Positions : classList[i] \cap FoundMarkers = {}

\* C25: in the two-player local game at most one player has a non-zero
\* powerCounter, each incrementPower putting the opponent's counter to 0
\* and raising the caller's by exactly 1.
C25Theorem ==
  /\ [](powerCounter[1] = 0 \/ powerCounter[2] = 0)
  /\ [][\A p \in Players :
          PowerCall(p)
            => /\ powerCounter'[otherPlayerIndex(p)] = 0
               /\ powerCounter'[p] = powerCounter[p] + 1]_vars

C25Witness ==
  /\ last.op = "incrementPower" /\ last.player = 1
  /\ powerCounter[1] = 1 /\ powerCounter[2] = 0
  /\ power[2] = 1

\* The step is a lobby command (createRoom, joinRoom, setReady).
LobbyCommand ==
  pending.remaining = 0 /\ last'.op \in {"create_room", "join_room", "setReady"}

\* The step is a key listener running movePlayer or confirmSelection.
KeyCommand ==
  /\ pending.remaining > 0 /\ gameRunning /\ playerId \in players
  /\ pending.key \in DirectionKeys \cup {"confirm"}

\* The step emits an intent.
Emits ==
  \/ LobbyCommand /\ emitted' # <<>>
  \/ KeyCommand /\ Len(emitted') > Len(emitted)

\* C26: an intent is emitted only while socketConnected is true, which is
\* after a connect event and before the next disconnect or connect_error
\* (the status then reads connected and this.socket is connected); a
\* command issued while disconnected emits nothing.
C26Theorem ==
  [][/\ Emits => /\ socketConnected
                 /\ status.class = "connected"
                 /\ socket # 0 /\ sockets[socket] = "connected"
     /\ (LobbyCommand /\ ~socketConnected) => emitted' = <<>>
     /\ (KeyCommand /\ ~socketConnected) => emitted' = emitted]_vars

C26Witness ==
  /\ last.op = "move" /\ gameRunning
  /\ ~socketConnected /\ status.text = "Disconnected"
  /\ pending.key \in DirectionKeys /\ pending.remaining = 0
  /\ emitted = <<>>

\* A game was started and a game_update has ended it.
GameEnded == keyListeners > 0 /\ ~gameRunning /\ ~reloading

\* C27: after a game_update has ended the game and until the next
\* game_start, the listeners of a key press neither move the local player
\* nor emit anything.
C27Theorem ==
  [][(GameEnded /\ pending.remaining > 0)
       => /\ UNCHANGED <<positionIndex, classList, moveCount>>
          /\ emitted' = <<>>]_vars

C27Witness ==
  /\ GameEnded
  /\ received = NoPayload
  /\ pending.key \in DirectionKeys \cup {"confirm"} /\ pending.remaining = 0
  /\ playerId \in players /\ socketConnected
  /\ emitted = <<>>
  /\ moveCount[playerId] = 0

\* C28: between one game_start and the next showGameOver is called at most
\* once: a game_update handled after the game has ended shows nothing.
C28Claim ==
  [][(GameEnded /\ Updated(received')) => gameOverShown' = 0]_vars

\* C29: whatever socket events came before, one key press of the running
\* game has, once its listeners have run, emitted exactly one intent over a
\* connected socket and made no second move.
C29Claim ==
  (/\ pending.key \in DirectionKeys \cup {"confirm"} /\ pending.remaining = 0
   /\ gameRunning /\ playerId \in players /\ socketConnected)
    => /\ Len(emitted) = 1
       /\ prev = NoCall

\* The step answers a joinRoom request.
JoinAnswered == reply'.event \in {"error", "room_joined"}

\* C22: a roster never exceeds 10 players; joinRoom fails with RoomNotFound
\* for an unknown code, RoomFull for a lobby room of 10 players and
\* InvalidPhase for a room with space that is not in lobby, it succeeds in
\* no other case, and a failed join leaves the roster unchanged.
C22Theorem ==
  /\ [](Len(roomPlayers) <= 10)
  /\ [][JoinAnswered
          => /\ reply'.code \notin rooms => reply'.error = "RoomNotFound"
             /\ (reply'.code \in rooms /\ Len(roomPlayers) >= 10
                   /\ phase = "lobby") => reply'.error = "RoomFull"
             /\ (reply'.code \in rooms /\ Len(roomPlayers) < 10
                   /\ phase # "lobby") => reply'.error = "InvalidPhase"
             /\ (reply'.code \in rooms /\ Len(roomPlayers) < 10
                   /\ phase = "lobby") => reply'.event = "room_joined"
             /\ reply'.event = "error" => roomPlayers' = roomPlayers
             /\ reply'.event = "room_joined"
                  => Len(roomPlayers') = Len(roomPlayers) + 1]_vars

C22Witness ==
  /\ reply.event = "error" /\ reply.error = "RoomFull"
  /\ Len(roomPlayers) = 10
  /\ phase = "lobby"

\* C23: a room leaves lobby for countdown only when every roster member is
\* ready and at least 2 players are present, and enters countdown from no
\* other phase.
C23Theorem ==
  [][(phase' = "countdown" /\ phase # "countdown")
       => /\ phase = "lobby"
          /\ Len(roomPlayers') >= 2
          /\ \A k \in 1..Len(roomPlayers') : roomPlayers'[k] \in readySet']_vars

C23Witness ==
  /\ phase = "countdown"
  /\ Len(roomPlayers) = 2
  /\ readySet = {roomPlayers[1], roomPlayers[2]}
  /\ reply.event = "player_update"

C20Claim ==
  [][(gameRunning /\ Updated(received'))
       => currentTarget' >= currentTarget]_vars

====
